---- MODULE Spec2Model ----
(***************************************************************************)
(* The Plan / Action execution engine of nix-installer: InstallPlan's      *)
(* install and uninstall walks (src/src/plan.rs), the receipt written to   *)
(* /nix/receipt.json, the version gate applied when a receipt is read,     *)
(* and the three-state lifecycle of the actions the plan owns.             *)
(***************************************************************************)
EXTENDS Integers, Sequences, FiniteSets, TLC

\* ---------------------------------------------------------------- bounds
MaxActions == 2
NSub == 2
MaxRuns == 2
ChanCap == 1
MaxVer == 1

\* ------------------------------------------------------------ ActionState
\* enum ActionState { Completed, Progress, Uncompleted }: the discriminants
\* in declaration order.
Completed == 0
Progress == 1
Uncompleted == 2

ActionStates == {Completed, Progress, Uncompleted}

VARIABLES
    actions,          \* InstallPlan.actions: the plan in memory
    version,          \* InstallPlan.version
    engine,           \* CARGO_PKG_VERSION of the running binary
    diagnostic_data,  \* InstallPlan.diagnostic_data is Some (feature on)
    receipt,          \* the content of /nix/receipt.json
    op,               \* the method running: "install", "uninstall", "none"
    pc,               \* where the running method is
    path,             \* which exit the method has taken
    idx,              \* the position of the walk
    cancel_channel,   \* the Option<Receiver<()>> handed to the method
    errors,           \* uninstall's `errors` vector
    err,              \* the error try_execute returned (install)
    written,          \* outcome of this exit's write_receipt
    result,           \* the value the method returned
    log,              \* the calls this run has made, in order
    applied,          \* per action: what its execute has done to the host
    runs,             \* number of install/uninstall calls so far
    loaded,           \* what reading the receipt gave the reader
    before,           \* the plan's actions as they were when the method was called
    delivery,         \* the first value sent on the channel during this run
    sent              \* outcome of this run's diagnostic send

vars == <<actions, version, engine, diagnostic_data, receipt, op, pc, path,
          idx, cancel_channel, errors, err, written, result, log, applied,
          runs, loaded, before, delivery, sent>>

\* ------------------------------------------------------- StatefulAction
\* StatefulAction { action, state }.  A leaf has no sub-actions; a
\* composite owns NSub leaf sub-actions, each with its own state.
Leaf == [kind |-> "leaf", state |-> Uncompleted, subs |-> <<>>]

Composite ==
    [kind |-> "composite", state |-> Uncompleted,
     subs |-> [j \in 1..NSub |-> Uncompleted]]

\* What Planner::plan returns: every action freshly planned.
PlannedActions ==
    UNION {[1..n -> {Leaf, Composite}] : n \in 0..MaxActions}

\* The error an action's own execute or revert fails with: one per action.
ActionError(i) == i

\* Mutant of ExecuteOutcomes: a composite that fails keeps the state it was
\* entered with, however many sub-actions it has completed.
ExecuteOutcomesKeepsState(a) ==
    IF a.kind = "leaf"
    THEN {[ok |-> TRUE, action |-> a], [ok |-> FALSE, action |-> a]}
    ELSE {[ok |-> TRUE,
           action |-> [a EXCEPT !.subs = [j \in 1..Len(a.subs) |-> Completed]]]}
         \cup
         {[ok |-> FALSE,
           action |->
             [a EXCEPT !.subs = [k \in 1..Len(a.subs) |->
                                   IF k < j THEN Completed ELSE a.subs[k]]]]
          : j \in {k \in 1..Len(a.subs) : a.subs[k] # Completed}}

\* The outcomes of Action::execute on `a` (entered with state # Completed).
\* A leaf either succeeds or fails leaving its state as it was.  A composite
\* walks its sub-actions forward with try_execute; when sub-action j fails
\* the sub-actions before it are Completed, and the composite's own state is
\* Progress once at least one sub-action has completed.
ExecuteOutcomes(a) ==
    IF a.kind = "leaf"
    THEN {[ok |-> TRUE, action |-> a], [ok |-> FALSE, action |-> a]}
    ELSE {[ok |-> TRUE,
           action |-> [a EXCEPT !.subs = [j \in 1..Len(a.subs) |-> Completed]]]}
         \cup
         {[ok |-> FALSE,
           action |->
             LET subs1 == [k \in 1..Len(a.subs) |->
                             IF k < j THEN Completed ELSE a.subs[k]]
             IN [a EXCEPT !.subs = subs1,
                          !.state = IF \E k \in 1..Len(subs1) :
                                          subs1[k] = Completed
                                    THEN Progress ELSE a.state]]
          : j \in {k \in 1..Len(a.subs) : a.subs[k] # Completed}}

\* Mutant of TryExecuteOutcomes: a failed execute marks the action Completed.
TryExecuteOutcomesMarksFailed(a) ==
    IF a.state = Completed
    THEN {[ok |-> TRUE, invoked |-> FALSE, action |-> a]}
    ELSE {[ok |-> o.ok, invoked |-> TRUE,
           action |-> [o.action EXCEPT !.state = Completed]]
          : o \in ExecuteOutcomes(a)}

\* StatefulAction::try_execute: a no-op on Completed; otherwise the state
\* becomes Completed on success and is left as execute left it on failure.
\* `invoked` tells whether the underlying execute ran.
TryExecuteOutcomes(a) ==
    IF a.state = Completed
    THEN {[ok |-> TRUE, invoked |-> FALSE, action |-> a]}
    ELSE {[ok |-> o.ok, invoked |-> TRUE,
           action |-> IF o.ok THEN [o.action EXCEPT !.state = Completed]
                      ELSE o.action]
          : o \in ExecuteOutcomes(a)}

\* The outcomes of Action::revert on `a` (entered with state # Uncompleted).
\* A composite walks its sub-actions in reverse with try_revert.
RevertOutcomes(a) ==
    IF a.kind = "leaf"
    THEN {[ok |-> TRUE, action |-> a], [ok |-> FALSE, action |-> a]}
    ELSE {[ok |-> TRUE,
           action |-> [a EXCEPT !.subs = [j \in 1..Len(a.subs) |-> Uncompleted]]]}
         \cup
         {[ok |-> FALSE,
           action |->
             [a EXCEPT !.subs = [k \in 1..Len(a.subs) |->
                                   IF k > j THEN Uncompleted ELSE a.subs[k]]]]
          : j \in {k \in 1..Len(a.subs) : a.subs[k] # Uncompleted}}

\* StatefulAction::try_revert: a no-op on Uncompleted; otherwise the state
\* becomes Uncompleted on success.
TryRevertOutcomes(a) ==
    IF a.state = Uncompleted
    THEN {[ok |-> TRUE, invoked |-> FALSE, action |-> a]}
    ELSE {[ok |-> o.ok, invoked |-> TRUE,
           action |-> IF o.ok THEN [o.action EXCEPT !.state = Uncompleted]
                      ELSE o.action]
          : o \in RevertOutcomes(a)}

\* ------------------------------------------------------- cancel channel
\* cancel_channel: Option<tokio::sync::broadcast::Receiver<()>>.  `rx` is
\* Some/None; `pending` counts the values sent and not yet received,
\* `lagged` is set when a send overwrote a value the receiver had not read,
\* `closed` when every sender has been dropped.
NoReceiver == [rx |-> FALSE, pending |-> 0, lagged |-> FALSE, closed |-> FALSE]

FreshReceiver == [rx |-> TRUE, pending |-> 0, lagged |-> FALSE, closed |-> FALSE]

\* Receiver::try_recv: what the poll returns.
TryRecv(c) ==
    IF c.lagged THEN "Lagged"
    ELSE IF c.pending > 0 THEN "Ok"
    ELSE IF c.closed THEN "Closed"
    ELSE "Empty"

\* Receiver::try_recv: the receiver after the poll.
AfterTryRecv(c) ==
    IF c.lagged THEN [c EXCEPT !.lagged = FALSE]
    ELSE IF c.pending > 0 THEN [c EXCEPT !.pending = c.pending - 1]
    ELSE c

\* The receiver once the method has left its loop: no exit polls it again,
\* and what it still holds is dropped with it when the method returns.
Dropped(c) == NoReceiver

\* Mutant of ProbeSignals: only a received value counts as a signal.
ProbeSignalsValueOnly(c) == c.rx /\ TryRecv(c) = "Ok"

\* Mutant of ProbeSignals: a missing receiver counts as a signal.
ProbeSignalsNoReceiver(c) == ~c.rx \/ TryRecv(c) # "Empty"

\* Mutant of ProbeSignals: the comparison is == in place of !=.
ProbeSignalsInverted(c) == c.rx /\ TryRecv(c) = "Empty"

\* The probe's test: try_recv() != Err(TryRecvError::Empty).
ProbeSignals(c) == c.rx /\ TryRecv(c) # "Empty"

\* ---------------------------------------------------------------- semver
Versions ==
    [major : 0..MaxVer, minor : 0..MaxVer, patch : 0..MaxVer, pre : {0, 1}]

\* Prerelease ordering: the empty prerelease (0) is greater than any other.
PreGeq(a, b) == a = 0 \/ (b # 0 /\ a >= b)

DigitStr == <<"0", "1", "2", "3", "4">>

DigitOf(s) == (CHOOSE k \in 1..Len(DigitStr) : DigitStr[k] = s) - 1

\* Version's Display (to_string), also its serde encoding: the text
\* "major.minor.patch" followed by "-pre" when there is a prerelease.
VersionToString(v) ==
    <<DigitStr[v.major + 1], ".", DigitStr[v.minor + 1], ".",
      DigitStr[v.patch + 1]>>
    \o (IF v.pre = 0 THEN <<>> ELSE <<"-", DigitStr[v.pre + 1]>>)

\* Version::deserialize / Version::from_str.
ParseVersion(s) ==
    [major |-> DigitOf(s[1]), minor |-> DigitOf(s[3]), patch |-> DigitOf(s[5]),
     pre |-> IF Len(s) > 5 THEN DigitOf(s[7]) ELSE 0]

\* Mutant of VersionReqParse: the requirement is the exact one, =version.
VersionReqParseExact(s) ==
    [op |-> "Exact", major |-> DigitOf(s[1]), minor |-> DigitOf(s[3]),
     patch |-> DigitOf(s[5]),
     pre |-> IF Len(s) > 5 THEN DigitOf(s[7]) ELSE 0]

\* VersionReq::parse of a bare version: one comparator, and since the text
\* carries no operator the operator is the default one, caret.
VersionReqParse(s) ==
    [op |-> "Caret", major |-> DigitOf(s[1]), minor |-> DigitOf(s[3]),
     patch |-> DigitOf(s[5]),
     pre |-> IF Len(s) > 5 THEN DigitOf(s[7]) ELSE 0]

MatchesExact(cmp, ver) ==
    /\ ver.major = cmp.major
    /\ ver.minor = cmp.minor
    /\ ver.patch = cmp.patch
    /\ ver.pre = cmp.pre

MatchesCaret(cmp, ver) ==
    IF ver.major # cmp.major THEN FALSE
    ELSE IF cmp.major > 0
    THEN IF ver.minor # cmp.minor THEN ver.minor > cmp.minor
         ELSE IF ver.patch # cmp.patch THEN ver.patch > cmp.patch
         ELSE PreGeq(ver.pre, cmp.pre)
    ELSE IF cmp.minor > 0
    THEN IF ver.minor # cmp.minor THEN FALSE
         ELSE IF ver.patch # cmp.patch THEN ver.patch > cmp.patch
         ELSE PreGeq(ver.pre, cmp.pre)
    ELSE IF ver.minor # cmp.minor \/ ver.patch # cmp.patch THEN FALSE
    ELSE PreGeq(ver.pre, cmp.pre)

\* A version with a prerelease matches only a comparator that names the same
\* major.minor.patch and has a prerelease itself.
PreIsCompatible(cmp, ver) ==
    /\ cmp.major = ver.major
    /\ cmp.minor = ver.minor
    /\ cmp.patch = ver.patch
    /\ cmp.pre # 0

\* VersionReq::matches.
Matches(req, ver) ==
    /\ IF req.op = "Exact" THEN MatchesExact(req, ver)
       ELSE MatchesCaret(req, ver)
    /\ (ver.pre = 0 \/ PreIsCompatible(req, ver))

\* current_version(): the version this binary was built as.
current_version == engine

\* ensure_version: the plan's version is accepted when the requirement
\* parsed from its text matches the reader's own version.
ensure_version(text) ==
    LET plan_version == ParseVersion(text)
        req == VersionReqParse(VersionToString(plan_version))
    IN [ok |-> Matches(req, current_version), version |-> plan_version]

\* --------------------------------------------------------------- receipt
\* Mutant of EncodeState: Progress is written as Uncompleted.
EncodeStateLossy(s) ==
    CASE s = Completed -> "Completed"
      [] s = Progress -> "Uncompleted"
      [] s = Uncompleted -> "Uncompleted"

\* serde's encoding of ActionState: the variant's name.
EncodeState(s) ==
    CASE s = Completed -> "Completed"
      [] s = Progress -> "Progress"
      [] s = Uncompleted -> "Uncompleted"

DecodeState(t) ==
    CASE t = "Completed" -> Completed
      [] t = "Progress" -> Progress
      [] t = "Uncompleted" -> Uncompleted

EncodeAction(a) ==
    [action |-> a.kind, state |-> EncodeState(a.state),
     subs |-> [j \in 1..Len(a.subs) |-> EncodeState(a.subs[j])]]

DecodeAction(j) ==
    [kind |-> j.action, state |-> DecodeState(j.state),
     subs |-> [k \in 1..Len(j.subs) |-> DecodeState(j.subs[k])]]

\* serde_json::to_string_pretty(&plan): the receipt's text.
EncodePlan(v, acts) ==
    [kind |-> "json", version |-> VersionToString(v),
     actions |-> [i \in 1..Len(acts) |-> EncodeAction(acts[i])]]

NoReceipt == [kind |-> "none", version |-> <<>>, actions |-> <<>>]

\* A file the failed write left truncated: it holds no plan.
TornReceipt == [kind |-> "torn", version |-> <<>>, actions |-> <<>>]

ZeroVersion == [major |-> 0, minor |-> 0, patch |-> 0, pre |-> 0]

NotLoaded == [status |-> "none", version |-> ZeroVersion, actions |-> <<>>]

\* Deserializing an InstallPlan from the receipt's text: `version` goes
\* through ensure_version, the actions are decoded one by one.
DecodePlan(r) ==
    IF r.kind # "json"
    THEN [status |-> "unreadable", version |-> ZeroVersion, actions |-> <<>>]
    ELSE LET v == ensure_version(r.version)
         IN IF v.ok
            THEN [status |-> "ok", version |-> v.version,
                  actions |-> [i \in 1..Len(r.actions) |->
                                 DecodeAction(r.actions[i])]]
            ELSE [status |-> "rejected", version |-> ZeroVersion,
                  actions |-> <<>>]

\* write_receipt: how it can end.  create_dir_all and the write fail with
\* RecordingReceipt, the encoding with SerializingReceipt.
WriteOutcomes == {"Ok", "SerializingReceipt", "RecordingReceipt"}

\* Mutant of ReceiptAfter: the plan written is a clone taken when the method
\* was called, not the plan as it is now.
ReceiptAfterStale(o, old, v, acts) ==
    CASE o = "Ok" -> {EncodePlan(v, before)}
      [] o = "RecordingReceipt" -> {old, TornReceipt}
      [] OTHER -> {old}

\* What /nix/receipt.json may hold after write_receipt ended with `o`: the
\* new text on success; what it held before when the encoding failed; what
\* it held before (the directory or the open failed) or a truncated file
\* (the write failed part-way) on RecordingReceipt.
ReceiptAfter(o, old, v, acts) ==
    CASE o = "Ok" -> {EncodePlan(v, acts)}
      [] o = "RecordingReceipt" -> {old, TornReceipt}
      [] OTHER -> {old}

\* The error write_receipt returns.
WriteError(o) == o

\* ---------------------------------------------------------------- results
\* Result<(), NixInstallerError>: `tag` is Ok or the error's variant, `errs`
\* the action errors the variant carries.
NoResult == [tag |-> "None", errs |-> <<>>]

Ok == [tag |-> "Ok", errs |-> <<>>]

Cancelled == [tag |-> "Cancelled", errs |-> <<>>]

ActionErr(e) == [tag |-> "Action", errs |-> <<e>>]

ActionRevert(es) == [tag |-> "ActionRevert", errs |-> es]

ReceiptErr(o) == [tag |-> WriteError(o), errs |-> <<>>]

\* The error a failed diagnostics send converts into through `?`.
DiagnosticErr == [tag |-> "Diagnostic", errs |-> <<>>]

\* Mutant of ExitResult: the cancel exit returns Ok.
ExitResultCancelOk(o, p, e, es) ==
    CASE p = "cancel" -> Ok
      [] p = "fail" /\ o = "install" -> ActionErr(e)
      [] p = "fail" /\ o = "uninstall" -> ActionRevert(es)
      [] OTHER -> Ok

\* Mutant of ExitResult: install's failure exit wraps the error as
\* uninstall's does.
ExitResultUnwrapped(o, p, e, es) ==
    CASE p = "cancel" -> Cancelled
      [] p = "fail" -> ActionRevert(<<e>>)
      [] OTHER -> Ok

\* The value each exit of install and uninstall returns once its
\* diagnostic has been sent.
ExitResult(o, p, e, es) ==
    CASE p = "cancel" -> Cancelled
      [] p = "fail" /\ o = "install" -> ActionErr(e)
      [] p = "fail" /\ o = "uninstall" -> ActionRevert(es)
      [] OTHER -> Ok

\* The status of the diagnostic each exit sends.
ExitStatus(p) ==
    CASE p = "cancel" -> "Cancelled"
      [] p = "fail" -> "Failure"
      [] OTHER -> "Success"

Event(e, i) == [ev |-> e, i |-> i]

\* The log entries of one pass through the probe: a poll when there is a
\* receiver.
ProbeLog(c) == IF c.rx THEN <<Event("try_recv", 0)>> ELSE <<>>

\* No value has been sent during this run.
NoDelivery == [some |-> FALSE, at |-> 0]

\* The action in flight when a value is sent, or the last one the walk has
\* left behind when none is in flight.
DeliveryAt ==
    IF pc = "inflight" THEN idx
    ELSE IF op = "install" THEN idx - 1 ELSE idx + 1

Running == pc \in {"loop", "inflight", "receipt", "diag"}

\* The method is in its loop: the only place where it polls the channel, so
\* the only place where what the senders do can reach it.
Walking == pc \in {"loop", "inflight"}

\* ------------------------------------------------------------------ Init
\* The version the binary is built as in the runs of install and uninstall.
BuiltVersion == [major |-> 1, minor |-> 0, patch |-> 0, pre |-> 0]

Init ==
    /\ actions \in PlannedActions
    /\ engine = BuiltVersion
    /\ version = BuiltVersion
    /\ diagnostic_data \in BOOLEAN
    /\ receipt = NoReceipt
    /\ op = "none"
    /\ pc = "idle"
    /\ path = "none"
    /\ idx = 0
    /\ cancel_channel = NoReceiver
    /\ errors = <<>>
    /\ err = 0
    /\ written = "none"
    /\ result = NoResult
    /\ log = <<>>
    /\ applied = [i \in 1..Len(actions) |-> "none"]
    /\ runs = 0
    /\ loaded = NotLoaded
    /\ before = actions
    /\ delivery = NoDelivery
    /\ sent = "none"

\* --------------------------------------------------------------- install
\* The caller invokes plan.install(cancel_channel).
CallInstall ==
    /\ pc \in {"idle", "done"}
    /\ runs < MaxRuns
    /\ \E rx \in BOOLEAN :
         cancel_channel' = IF rx THEN FreshReceiver ELSE NoReceiver
    /\ op' = "install"
    /\ pc' = "loop"
    /\ path' = "none"
    /\ idx' = 1
    /\ errors' = <<>>
    /\ err' = 0
    /\ written' = "none"
    /\ result' = NoResult
    /\ log' = <<>>
    /\ runs' = runs + 1
    /\ UNCHANGED <<actions, version, engine, diagnostic_data, receipt,
                   applied, loaded>>
    /\ before' = actions
    /\ delivery' = NoDelivery
    /\ sent' = "none"

\* A holder of the Sender sends a value while the method runs.  A send into
\* a full buffer overwrites the oldest value: the receiver has lagged.
SendCancel ==
    /\ Walking
    /\ cancel_channel.rx
    /\ ~cancel_channel.closed
    /\ cancel_channel' =
         IF cancel_channel.pending < ChanCap
         THEN [cancel_channel EXCEPT !.pending = cancel_channel.pending + 1]
         ELSE [cancel_channel EXCEPT !.lagged = TRUE]
    /\ cancel_channel' # cancel_channel
    /\ UNCHANGED <<actions, version, engine, diagnostic_data, receipt, op, pc,
                   path, idx, errors, err, written, result, log, applied,
                   runs, loaded>>
    /\ delivery' = IF delivery.some THEN delivery
                   ELSE [some |-> TRUE, at |-> DeliveryAt]
    /\ UNCHANGED <<before, sent>>

\* The last Sender is dropped while the method runs.
DropSender ==
    /\ Walking
    /\ cancel_channel.rx
    /\ ~cancel_channel.closed
    /\ cancel_channel' = [cancel_channel EXCEPT !.closed = TRUE]
    /\ UNCHANGED <<actions, version, engine, diagnostic_data, receipt, op, pc,
                   path, idx, errors, err, written, result, log, applied,
                   runs, loaded>>
    /\ UNCHANGED <<before, delivery, sent>>

\* Mutant of InstallProbeCancel: the probe sits after try_execute, so the
\* action at idx has run when the signal is seen.
InstallProbeCancelLate ==
    /\ pc = "loop"
    /\ op = "install"
    /\ idx <= Len(actions)
    /\ ProbeSignals(cancel_channel)
    /\ cancel_channel' = Dropped(AfterTryRecv(cancel_channel))
    /\ actions' = [actions EXCEPT ![idx].state = Completed]
    /\ log' = log \o <<Event("try_execute", idx)>> \o ProbeLog(cancel_channel)
    /\ pc' = "receipt"
    /\ path' = "cancel"
    /\ UNCHANGED <<version, engine, diagnostic_data, receipt, op,
                   idx, errors, err, written, result, applied, runs, loaded>>
    /\ UNCHANGED <<before, delivery, sent>>

\* install, the probe before action idx finds something other than Empty.
InstallProbeCancel ==
    /\ pc = "loop"
    /\ op = "install"
    /\ idx <= Len(actions)
    /\ ProbeSignals(cancel_channel)
    /\ cancel_channel' = Dropped(AfterTryRecv(cancel_channel))
    /\ log' = log \o ProbeLog(cancel_channel)
    /\ pc' = "receipt"
    /\ path' = "cancel"
    /\ UNCHANGED <<actions, version, engine, diagnostic_data, receipt, op,
                   idx, errors, err, written, result, applied, runs, loaded>>
    /\ UNCHANGED <<before, delivery, sent>>

\* Mutant of InstallTryExecute: the action's execute is started and not
\* awaited, the loop goes on to the next action.
InstallTryExecuteSpawned ==
    /\ pc = "loop"
    /\ op = "install"
    /\ idx <= Len(actions)
    /\ ~ProbeSignals(cancel_channel)
    /\ log' = log \o ProbeLog(cancel_channel)
                  \o <<Event("try_execute", idx), Event("execute", idx)>>
    /\ idx' = idx + 1
    /\ pc' = "loop"
    /\ applied' = [applied EXCEPT ![idx] = "partial"]
    /\ UNCHANGED <<actions, version, engine, diagnostic_data, receipt, op,
                   path, cancel_channel, errors, err, written, result, runs,
                   loaded>>
    /\ UNCHANGED <<before, delivery, sent>>

\* install, the probe passes and action.try_execute() is called: a no-op
\* on a Completed action, otherwise the action's execute starts.
InstallTryExecute ==
    /\ pc = "loop"
    /\ op = "install"
    /\ idx <= Len(actions)
    /\ ~ProbeSignals(cancel_channel)
    /\ IF actions[idx].state = Completed
       THEN /\ log' = log \o ProbeLog(cancel_channel)
                          \o <<Event("try_execute", idx)>>
            /\ idx' = idx + 1
            /\ pc' = "loop"
            /\ applied' = applied
       ELSE /\ log' = log \o ProbeLog(cancel_channel)
                          \o <<Event("try_execute", idx), Event("execute", idx)>>
            /\ idx' = idx
            /\ pc' = "inflight"
            /\ applied' = [applied EXCEPT ![idx] = "partial"]
    /\ UNCHANGED <<actions, version, engine, diagnostic_data, receipt, op,
                   path, cancel_channel, errors, err, written, result, runs,
                   loaded>>
    /\ UNCHANGED <<before, delivery, sent>>

\* install, the execute in flight ends and try_execute returns.
ExecuteReturn ==
    /\ pc = "inflight"
    /\ op = "install"
    /\ \E o \in TryExecuteOutcomes(actions[idx]) :
         /\ actions' = [actions EXCEPT ![idx] = o.action]
         /\ IF o.ok
            THEN /\ applied' = [applied EXCEPT ![idx] = "full"]
                 /\ log' = Append(log, Event("execute_ok", idx))
                 /\ idx' = idx + 1
                 /\ pc' = "loop"
                 /\ UNCHANGED <<err, path, cancel_channel>>
            ELSE /\ err' = ActionError(idx)
                 /\ log' = Append(log, Event("execute_err", idx))
                 /\ cancel_channel' = Dropped(cancel_channel)
                 /\ pc' = "receipt"
                 /\ path' = "fail"
                 /\ UNCHANGED <<applied, idx>>
    /\ UNCHANGED <<version, engine, diagnostic_data, receipt, op,
                   errors, written, result, runs, loaded>>
    /\ UNCHANGED <<before, delivery, sent>>

\* install, the loop has visited every action.
InstallLoopEnd ==
    /\ pc = "loop"
    /\ op = "install"
    /\ idx > Len(actions)
    /\ cancel_channel' = Dropped(cancel_channel)
    /\ pc' = "receipt"
    /\ path' = "success"
    /\ UNCHANGED <<actions, version, engine, diagnostic_data, receipt, op,
                   idx, errors, err, written, result, log,
                   applied, runs, loaded>>
    /\ UNCHANGED <<before, delivery, sent>>

\* Mutant of WriteReceiptLogged: the write's error is returned with `?`.
WriteReceiptPropagated ==
    /\ pc = "receipt"
    /\ path \in {"cancel", "fail"}
    /\ \E o \in WriteOutcomes :
         /\ written' = o
         /\ receipt' \in ReceiptAfter(o, receipt, version, actions)
         /\ IF o = "Ok"
            THEN pc' = "diag" /\ result' = result
            ELSE pc' = "done" /\ result' = ReceiptErr(o)
    /\ log' = Append(log, Event("write_receipt", 0))
    /\ UNCHANGED <<actions, version, engine, diagnostic_data, op, path, idx,
                   cancel_channel, errors, err, applied, runs, loaded>>
    /\ UNCHANGED <<before, delivery, sent>>

\* write_receipt(self.clone()) on the cancel and failure exits: an error is
\* logged and the method goes on.
WriteReceiptLogged ==
    /\ pc = "receipt"
    /\ path \in {"cancel", "fail"}
    /\ \E o \in WriteOutcomes :
         /\ written' = o
         /\ receipt' \in ReceiptAfter(o, receipt, version, actions)
    /\ log' = Append(log, Event("write_receipt", 0))
    /\ pc' = "diag"
    /\ UNCHANGED <<actions, version, engine, diagnostic_data, op, path, idx,
                   cancel_channel, errors, err, result, applied, runs, loaded>>
    /\ UNCHANGED <<before, delivery, sent>>

\* Mutant of WriteReceiptFinal: the write's error is logged and install
\* goes on to its Success exit.
WriteReceiptFinalLogged ==
    /\ pc = "receipt"
    /\ path = "success"
    /\ \E o \in WriteOutcomes :
         /\ written' = o
         /\ receipt' \in ReceiptAfter(o, receipt, version, actions)
    /\ pc' = "diag"
    /\ log' = Append(log, Event("write_receipt", 0))
    /\ UNCHANGED <<actions, version, engine, diagnostic_data, op, path, idx,
                   cancel_channel, errors, err, result, applied, runs, loaded>>
    /\ UNCHANGED <<before, delivery, sent>>

\* write_receipt(self.clone()).await? after install's last action: an error
\* is returned.
WriteReceiptFinal ==
    /\ pc = "receipt"
    /\ path = "success"
    /\ \E o \in WriteOutcomes :
         /\ written' = o
         /\ receipt' \in ReceiptAfter(o, receipt, version, actions)
         /\ IF o = "Ok"
            THEN pc' = "diag" /\ result' = result
            ELSE pc' = "done" /\ result' = ReceiptErr(o)
    /\ log' = Append(log, Event("write_receipt", 0))
    /\ UNCHANGED <<actions, version, engine, diagnostic_data, op, path, idx,
                   cancel_channel, errors, err, applied, runs, loaded>>
    /\ UNCHANGED <<before, delivery, sent>>

\* Mutant of SendDiagnostic: a failed send is dropped and the exit returns
\* its own value.
SendDiagnosticNonFatal ==
    /\ pc = "diag"
    /\ diagnostic_data
    /\ \E delivered \in BOOLEAN :
         sent' = IF delivered THEN "ok" ELSE "failed"
    /\ result' = ExitResult(op, path, err, errors)
    /\ log' = Append(log, Event(ExitStatus(path), 0))
    /\ pc' = "done"
    /\ cancel_channel' = Dropped(cancel_channel)
    /\ UNCHANGED <<actions, version, engine, diagnostic_data, receipt, op,
                   path, idx, errors, err, written, applied, runs, loaded>>
    /\ UNCHANGED <<before, delivery>>

\* The exit's diagnostic send, `.send(..).await?`, and the return after it:
\* a failed send returns the send's error in place of the exit's value.
SendDiagnostic ==
    /\ pc = "diag"
    /\ diagnostic_data
    /\ \E delivered \in BOOLEAN :
         /\ sent' = IF delivered THEN "ok" ELSE "failed"
         /\ result' = IF delivered THEN ExitResult(op, path, err, errors)
                      ELSE DiagnosticErr
    /\ log' = Append(log, Event(ExitStatus(path), 0))
    /\ pc' = "done"
    /\ cancel_channel' = Dropped(cancel_channel)
    /\ UNCHANGED <<actions, version, engine, diagnostic_data, receipt, op,
                   path, idx, errors, err, written, applied, runs, loaded>>
    /\ UNCHANGED <<before, delivery>>

\* The return of an exit when the plan carries no diagnostic data. The
\* receiver was moved into the call and is dropped with it.
ReturnExit ==
    /\ pc = "diag"
    /\ ~diagnostic_data
    /\ result' = ExitResult(op, path, err, errors)
    /\ pc' = "done"
    /\ cancel_channel' = Dropped(cancel_channel)
    /\ UNCHANGED <<actions, version, engine, diagnostic_data, receipt, op,
                   path, idx, errors, err, written, log, applied, runs,
                   loaded>>
    /\ UNCHANGED <<before, delivery, sent>>

\* ------------------------------------------------------------- uninstall
\* Mutant of CallUninstall: the walk starts at the first action.
CallUninstallFromFront ==
    /\ pc \in {"idle", "done"}
    /\ runs < MaxRuns
    /\ \E rx \in BOOLEAN :
         cancel_channel' = IF rx THEN FreshReceiver ELSE NoReceiver
    /\ op' = "uninstall"
    /\ pc' = "loop"
    /\ path' = "none"
    /\ idx' = IF actions = <<>> THEN 0 ELSE 1
    /\ errors' = <<>>
    /\ err' = 0
    /\ written' = "none"
    /\ result' = NoResult
    /\ log' = <<>>
    /\ runs' = runs + 1
    /\ UNCHANGED <<actions, version, engine, diagnostic_data, receipt,
                   applied, loaded>>
    /\ before' = actions
    /\ delivery' = NoDelivery
    /\ sent' = "none"

\* The caller invokes plan.uninstall(cancel_channel).
CallUninstall ==
    /\ pc \in {"idle", "done"}
    /\ runs < MaxRuns
    /\ \E rx \in BOOLEAN :
         cancel_channel' = IF rx THEN FreshReceiver ELSE NoReceiver
    /\ op' = "uninstall"
    /\ pc' = "loop"
    /\ path' = "none"
    /\ idx' = Len(actions)
    /\ errors' = <<>>
    /\ err' = 0
    /\ written' = "none"
    /\ result' = NoResult
    /\ log' = <<>>
    /\ runs' = runs + 1
    /\ UNCHANGED <<actions, version, engine, diagnostic_data, receipt,
                   applied, loaded>>
    /\ before' = actions
    /\ delivery' = NoDelivery
    /\ sent' = "none"

\* Mutant of UninstallProbeCancel: the probe sits after try_revert, so the
\* action at idx has been reverted when the signal is seen.
UninstallProbeCancelLate ==
    /\ pc = "loop"
    /\ op = "uninstall"
    /\ idx >= 1
    /\ ProbeSignals(cancel_channel)
    /\ cancel_channel' = Dropped(AfterTryRecv(cancel_channel))
    /\ actions' = [actions EXCEPT ![idx].state = Uncompleted]
    /\ log' = log \o <<Event("try_revert", idx)>> \o ProbeLog(cancel_channel)
    /\ pc' = "receipt"
    /\ path' = "cancel"
    /\ UNCHANGED <<version, engine, diagnostic_data, receipt, op,
                   idx, errors, err, written, result, applied, runs, loaded>>
    /\ UNCHANGED <<before, delivery, sent>>

\* uninstall, the probe before action idx finds something other than Empty.
UninstallProbeCancel ==
    /\ pc = "loop"
    /\ op = "uninstall"
    /\ idx >= 1
    /\ ProbeSignals(cancel_channel)
    /\ cancel_channel' = Dropped(AfterTryRecv(cancel_channel))
    /\ log' = log \o ProbeLog(cancel_channel)
    /\ pc' = "receipt"
    /\ path' = "cancel"
    /\ UNCHANGED <<actions, version, engine, diagnostic_data, receipt, op,
                   idx, errors, err, written, result, applied, runs, loaded>>
    /\ UNCHANGED <<before, delivery, sent>>

\* uninstall, the probe passes and action.try_revert() is called: a no-op
\* on an Uncompleted action, otherwise the action's revert starts.
UninstallTryRevert ==
    /\ pc = "loop"
    /\ op = "uninstall"
    /\ idx >= 1
    /\ ~ProbeSignals(cancel_channel)
    /\ IF actions[idx].state = Uncompleted
       THEN /\ log' = log \o ProbeLog(cancel_channel)
                          \o <<Event("try_revert", idx)>>
            /\ idx' = idx - 1
            /\ pc' = "loop"
            /\ applied' = applied
       ELSE /\ log' = log \o ProbeLog(cancel_channel)
                          \o <<Event("try_revert", idx), Event("revert", idx)>>
            /\ idx' = idx
            /\ pc' = "inflight"
            /\ applied' = [applied EXCEPT ![idx] = "partial"]
    /\ UNCHANGED <<actions, version, engine, diagnostic_data, receipt, op,
                   path, cancel_channel, errors, err, written, result, runs,
                   loaded>>
    /\ UNCHANGED <<before, delivery, sent>>

\* uninstall, the revert in flight ends and try_revert returns: an error is
\* pushed on `errors` and the walk goes on.
RevertReturn ==
    /\ pc = "inflight"
    /\ op = "uninstall"
    /\ \E o \in TryRevertOutcomes(actions[idx]) :
         /\ actions' = [actions EXCEPT ![idx] = o.action]
         /\ IF o.ok
            THEN /\ applied' = [applied EXCEPT ![idx] = "none"]
                 /\ log' = Append(log, Event("revert_ok", idx))
                 /\ errors' = errors
            ELSE /\ errors' = Append(errors, ActionError(idx))
                 /\ log' = Append(log, Event("revert_err", idx))
                 /\ applied' = applied
    /\ idx' = idx - 1
    /\ pc' = "loop"
    /\ UNCHANGED <<version, engine, diagnostic_data, receipt, op, path,
                   cancel_channel, err, written, result, runs, loaded>>
    /\ UNCHANGED <<before, delivery, sent>>

\* Mutant of UninstallLoopEnd: the Ok exit is taken whatever `errors` holds.
UninstallLoopEndIgnoresErrors ==
    /\ pc = "loop"
    /\ op = "uninstall"
    /\ idx < 1
    /\ path' = "success"
    /\ cancel_channel' = Dropped(cancel_channel)
    /\ pc' = "diag"
    /\ UNCHANGED <<actions, version, engine, diagnostic_data, receipt, op,
                   idx, errors, err, written, result, log,
                   applied, runs, loaded>>
    /\ UNCHANGED <<before, delivery, sent>>

\* uninstall, the loop has visited every action: errors.is_empty() picks
\* the exit.
UninstallLoopEnd ==
    /\ pc = "loop"
    /\ op = "uninstall"
    /\ idx < 1
    /\ path' = IF errors = <<>> THEN "success" ELSE "fail"
    /\ cancel_channel' = Dropped(cancel_channel)
    /\ pc' = "diag"
    /\ UNCHANGED <<actions, version, engine, diagnostic_data, receipt, op,
                   idx, errors, err, written, result, log,
                   applied, runs, loaded>>
    /\ UNCHANGED <<before, delivery, sent>>

Next ==
    \/ CallInstall
    \/ SendCancel
    \/ DropSender
    \/ InstallProbeCancel
    \/ InstallTryExecute
    \/ ExecuteReturn
    \/ InstallLoopEnd
    \/ WriteReceiptLogged
    \/ WriteReceiptFinal
    \/ SendDiagnostic
    \/ ReturnExit
    \/ CallUninstall
    \/ UninstallProbeCancel
    \/ UninstallTryRevert
    \/ RevertReturn
    \/ UninstallLoopEnd

Spec == Init /\ [][Next]_vars

\* ------------------------------------------- writing and reading receipts
\* The values a StatefulAction of a plan can hold when the plan is written:
\* a leaf is Uncompleted or Completed; a composite has its first k
\* sub-actions Completed and is Uncompleted (k = 0), Progress (some but not
\* all) or Completed.
StoredActions ==
    {[Leaf EXCEPT !.state = s] : s \in {Uncompleted, Completed}}
    \cup
    {[Composite EXCEPT
        !.state = IF k = 0 THEN Uncompleted
                  ELSE IF k < NSub THEN st ELSE Completed,
        !.subs = [j \in 1..NSub |-> IF j <= k THEN Completed ELSE Uncompleted]]
     : k \in 0..NSub, st \in {Progress, Completed}}

StoredPlans == UNION {[1..n -> StoredActions] : n \in 0..MaxActions}

\* A plan some engine wrote, of any version, with its actions in any of the
\* states a plan can be written in; nothing is on disk yet.
InitReceipt ==
    /\ actions \in StoredPlans
    /\ version \in Versions
    /\ engine = version
    /\ diagnostic_data = FALSE
    /\ receipt = NoReceipt
    /\ op = "none"
    /\ pc = "idle"
    /\ path = "none"
    /\ idx = 0
    /\ cancel_channel = NoReceiver
    /\ errors = <<>>
    /\ err = 0
    /\ written = "none"
    /\ result = NoResult
    /\ log = <<>>
    /\ applied = [i \in 1..Len(actions) |-> "none"]
    /\ runs = 0
    /\ loaded = NotLoaded
    /\ before = actions
    /\ delivery = NoDelivery
    /\ sent = "none"

\* The engine that owns the plan writes it: write_receipt(plan).
SaveReceipt ==
    /\ written = "none"
    /\ \E o \in WriteOutcomes :
         /\ written' = o
         /\ receipt' \in ReceiptAfter(o, receipt, version, actions)
    /\ UNCHANGED <<actions, version, engine, diagnostic_data, op, pc, path,
                   idx, cancel_channel, errors, err, result, log, applied,
                   runs, loaded>>
    /\ UNCHANGED <<before, delivery, sent>>

\* The versions of the binaries that are started to read the receipt.
\* ensure_version is the deserializer of the `version` field alone, so
\* whether a plan is accepted cannot depend on its actions: binaries of
\* every version read the plans of at most one action, and the longer plans
\* are read by the version that wrote them.
Readers ==
    IF Len(actions) <= 1 THEN Versions ELSE {version}

\* A binary built as version e is started to read the receipt.
StartReader ==
    /\ written # "none"
    /\ op = "none"
    /\ \E e \in Readers : engine' = e
    /\ op' = "load"
    /\ UNCHANGED <<actions, version, diagnostic_data, receipt, pc, path,
                   idx, cancel_channel, errors, err, written, result, log,
                   applied, runs, loaded>>
    /\ UNCHANGED <<before, delivery, sent>>

\* The reader deserializes an InstallPlan from what is on disk.
LoadReceipt ==
    /\ op = "load"
    /\ loaded = NotLoaded
    /\ loaded' = DecodePlan(receipt)
    /\ UNCHANGED <<actions, version, engine, diagnostic_data, receipt, op,
                   pc, path, idx, cancel_channel, errors, err, written,
                   result, log, applied, runs>>
    /\ UNCHANGED <<before, delivery, sent>>

NextReceipt == SaveReceipt \/ StartReader \/ LoadReceipt

SpecReceipt == InitReceipt /\ [][NextReceipt]_vars

\* ================================================================ claims
\* The log holds a call `e` on action i.
Invoked(e, i) == \E k \in 1..Len(log) : log[k] = Event(e, i)

\* The positions of the log that hold a call `e`.
Calls(e) == {k \in 1..Len(log) : log[k].ev = e}

InstallReturned == op = "install" /\ pc = "done"

UninstallReturned == op = "uninstall" /\ pc = "done"

\* install has returned through its failure exit: try_execute of action idx
\* failed.
InstallFailed == InstallReturned /\ path = "fail"

\* install has returned through its cancel exit: the probe before action idx
\* found a signal.
InstallCancelled == InstallReturned /\ path = "cancel"

\* The actions before position k are all Completed.
CompletedBefore(k) == \A i \in 1..(k - 1) : actions[i].state = Completed

\* The actions after position k are as they were when the method was
\* called, and none of them has been handed to try_execute.
UntouchedAfter(k) ==
    \A i \in (k + 1)..Len(actions) :
        actions[i] = before[i] /\ ~Invoked("try_execute", i)

\* A composite that has completed some of its sub-actions and not all.
PartlyExecuted(a) ==
    /\ a.kind = "composite"
    /\ a.state = Progress
    /\ \E k \in 1..Len(a.subs) : a.subs[k] = Completed

\* C1, as claimed: when try_execute of action k fails with E, install
\* returns Action(E), the actions before k are Completed, action k has the
\* state it had when install reached it, and no action after k has been
\* invoked or changed.
C1_InstallFailureAsClaimed ==
    InstallFailed =>
        /\ result = ActionErr(ActionError(idx))
        /\ CompletedBefore(idx)
        /\ actions[idx].state = before[idx].state
        /\ UntouchedAfter(idx)

\* C1, amended: when try_execute of action k fails with E, install returns
\* Action(E) unless the Failure diagnostic send fails, and then it returns
\* the send's error; the actions before k are Completed; action k has the
\* state it had when install reached it, or is a composite left in Progress
\* with some of its sub-actions Completed; no action after k has been
\* invoked or changed.
C1_InstallFailure ==
    InstallFailed =>
        /\ result = IF sent = "failed" THEN DiagnosticErr
                    ELSE ActionErr(ActionError(idx))
        /\ CompletedBefore(idx)
        /\ \/ actions[idx].state = before[idx].state
           \/ PartlyExecuted(actions[idx])
        /\ UntouchedAfter(idx)

C1_Witness ==
    /\ InstallFailed
    /\ Len(actions) = 2
    /\ idx = 1
    /\ result = ActionErr(ActionError(1))
    /\ actions[1].state = Uncompleted

\* The receipt `r` records the actions `acts`, each with its state.
RecordsStates(r, acts) ==
    /\ r.kind = "json"
    /\ Len(r.actions) = Len(acts)
    /\ \A i \in 1..Len(acts) : DecodeAction(r.actions[i]) = acts[i]

\* C2, as claimed: whenever install returns Ok, an action error or
\* Cancelled, the receipt on disk records for every action the state it has
\* in memory.
C2_ReceiptMatchesAsClaimed ==
    (InstallReturned /\ result.tag \in {"Ok", "Action", "Cancelled"})
        => RecordsStates(receipt, actions)

\* C2, amended: whenever install returns Ok, or returns an action error or
\* Cancelled after a receipt write that succeeded, the receipt on disk
\* records for every action the state it has in memory; install never
\* returns Ok after a receipt write that failed.
C2_ReceiptMatches ==
    (InstallReturned /\ result.tag \in {"Ok", "Action", "Cancelled"})
        => /\ result.tag = "Ok" => written = "Ok"
           /\ written = "Ok" => RecordsStates(receipt, actions)

C2_Witness ==
    /\ InstallReturned
    /\ result.tag = "Action"
    /\ written = "Ok"
    /\ idx = 2
    /\ RecordsStates(receipt, actions)

\* C3, as claimed: every run of install or uninstall that returns an action
\* error, ActionRevert or Cancelled has called write_receipt before
\* returning, and every install that returns Ok has called write_receipt
\* after its last try_execute.
C3_ReceiptWrittenBeforeReturn ==
    /\ (pc = "done" /\ result.tag \in {"Action", "ActionRevert", "Cancelled"})
          => Calls("write_receipt") # {}
    /\ (InstallReturned /\ result = Ok)
          => \E w \in Calls("write_receipt") :
                \A k \in Calls("try_execute") : k < w

\* The actions whose underlying revert a new process invokes when it loads
\* the receipt on disk and calls uninstall on the plan it holds: those
\* try_revert does not skip.  Nothing can be loaded from a missing or
\* truncated receipt.
ResumeReverts ==
    LET p == DecodePlan(receipt)
    IN IF p.status = "ok"
       THEN {i \in 1..Len(p.actions) :
                \E o \in TryRevertOutcomes(p.actions[i]) : o.invoked}
       ELSE {}

\* C4, as claimed: at every point of a run of install or uninstall the
\* receipt on disk is enough to resume revert: loading it and calling
\* uninstall reverts every action whose execute has completed and has not
\* been reverted, and no action that was never executed or was reverted.
C4_ReceiptResumesRevert ==
    Running =>
        \A i \in 1..Len(actions) :
            /\ applied[i] = "full" => i \in ResumeReverts
            /\ applied[i] = "none" => i \notin ResumeReverts

\* The errors of the reverts that failed in this run, in the order they
\* occurred.
RevertFailures ==
    LET failed == SelectSeq(log, LAMBDA e : e.ev = "revert_err")
    IN [k \in 1..Len(failed) |-> ActionError(failed[k].i)]

\* C9, as claimed: every error a try_revert produced during a run of
\* uninstall is in the value the run returns, whatever way the run ends.
C9_RevertErrorsReported ==
    UninstallReturned =>
        \A k \in 1..Len(RevertFailures) :
            \E j \in 1..Len(result.errs) : result.errs[j] = RevertFailures[k]

\* C10, as claimed: an uninstall that is not cancelled calls try_revert
\* exactly once on each action, returns Ok exactly when no try_revert
\* failed, and otherwise returns ActionRevert with the errors of the failed
\* reverts in the order they occurred.
C10_UninstallVisitsAll ==
    (UninstallReturned /\ path # "cancel") =>
        /\ \A i \in 1..Len(actions) :
              Cardinality({k \in Calls("try_revert") : log[k].i = i}) = 1
        /\ result = Ok <=> RevertFailures = <<>>
        /\ RevertFailures # <<>> => result = ActionRevert(RevertFailures)

\* ------------------------------------------------------------ version gate
TripleLess(a, b) ==
    \/ a.major < b.major
    \/ a.major = b.major /\ a.minor < b.minor
    \/ a.major = b.major /\ a.minor = b.minor /\ a.patch < b.patch

SameTriple(a, b) ==
    a.major = b.major /\ a.minor = b.minor /\ a.patch = b.patch

\* The first version that is no longer compatible with p: the next major
\* for 1.x and above, the next minor for 0.x, the next patch for 0.0.x.
CaretUpper(p) ==
    IF p.major > 0
    THEN [major |-> p.major + 1, minor |-> 0, patch |-> 0, pre |-> 0]
    ELSE IF p.minor > 0
    THEN [major |-> 0, minor |-> p.minor + 1, patch |-> 0, pre |-> 0]
    ELSE [major |-> 0, minor |-> 0, patch |-> p.patch + 1, pre |-> 0]

\* e lies in the range the requirement ^p stands for: a release from p up to
\* the next incompatible version, or a prerelease of p's own
\* major.minor.patch that is not older than the prerelease p.
InCaretRange(p, e) ==
    IF e.pre = 0
    THEN ~TripleLess(e, p) /\ TripleLess(e, CaretUpper(p))
    ELSE SameTriple(e, p) /\ p.pre # 0 /\ e.pre >= p.pre

\* A reader has deserialized a receipt that holds a plan.
ReceiptRead == loaded.status \in {"ok", "rejected"}

C6_RoundTrip ==
    (loaded.status # "none" /\ written = "Ok" /\ engine = version)
        => /\ loaded.status = "ok"
           /\ loaded.version = version
           /\ loaded.actions = actions

C6_Witness ==
    /\ loaded.status = "ok"
    /\ engine = version
    /\ version.pre # 0
    /\ Len(loaded.actions) = 2
    /\ loaded.actions[1].state = Progress
    /\ loaded.actions[2].state = Completed
    /\ loaded.actions = actions

\* ------------------------------------------------------------ cancellation
\* C7, as claimed: once a value has been delivered while install runs with
\* a receiver, install starts no action after the one in flight at that
\* time and returns Cancelled, wherever in the plan that action is.
C7_CancelAfterDeliveryAsClaimed ==
    (op = "install" /\ delivery.some) =>
        /\ \A i \in (delivery.at + 1)..Len(actions) : ~Invoked("try_execute", i)
        /\ pc = "done" => result = Cancelled

\* C7, amended: once a value has been delivered while install walks the
\* plan with a receiver, install starts no action after the one in flight at
\* that time.  When an action remains after it and it did not fail, the run
\* ends at the next probe: install returns Cancelled, or the send's error
\* when the Cancelled diagnostic cannot be sent.  When it fails install
\* leaves through its failure exit, and a value delivered during or after
\* the last action is never polled: install does not return Cancelled.
C7_CancelAfterDelivery ==
    (op = "install" /\ delivery.some) =>
        /\ \A i \in (delivery.at + 1)..Len(actions) : ~Invoked("try_execute", i)
        /\ pc = "done" =>
              IF delivery.at < Len(actions) /\ path # "fail"
              THEN /\ path = "cancel"
                   /\ result = IF sent = "failed" THEN DiagnosticErr
                               ELSE Cancelled
              ELSE path # "cancel" /\ result # Cancelled

C7_Witness ==
    /\ InstallReturned
    /\ delivery.some
    /\ delivery.at = 1
    /\ Len(actions) = 2
    /\ Invoked("execute_ok", 1)
    /\ result = Cancelled

\* C8, as claimed: when the probe before action k observes a cancellation,
\* install returns Cancelled, the actions before k are Completed, action k
\* and those after it are neither invoked nor changed, and install reverts
\* nothing.
C8_CancelAtProbeAsClaimed ==
    InstallCancelled =>
        /\ result = Cancelled
        /\ CompletedBefore(idx)
        /\ UntouchedAfter(idx - 1)
        /\ Calls("try_revert") = {}
        /\ Calls("revert") = {}

\* C8, amended: when the probe before action k observes a cancellation,
\* install returns Cancelled unless the Cancelled diagnostic send fails, and
\* then it returns the send's error; the actions before k are Completed,
\* action k and those after it are neither invoked nor changed, and install
\* reverts nothing.
C8_CancelAtProbe ==
    InstallCancelled =>
        /\ result = IF sent = "failed" THEN DiagnosticErr ELSE Cancelled
        /\ CompletedBefore(idx)
        /\ UntouchedAfter(idx - 1)
        /\ Calls("try_revert") = {}
        /\ Calls("revert") = {}

C8_Witness ==
    /\ InstallCancelled
    /\ idx = 2
    /\ result = Cancelled
    /\ actions[1].state = Completed
    /\ before[1].state = Uncompleted
    /\ actions[2].state = Uncompleted

\* ------------------------------------------------------------- walk order
\* The actions a call `e` was made on, in the order of the calls.
CallOrder(e) ==
    LET calls == SelectSeq(log, LAMBDA x : x.ev = e)
    IN [k \in 1..Len(calls) |-> calls[k].i]

\* C11: install calls try_execute on the actions in increasing index order
\* and uninstall calls try_revert on them in decreasing index order: the
\* k-th call of a run of install is on action k, the k-th call of a run of
\* uninstall is on action |P| - k + 1, so that no action is visited twice
\* or out of order, and neither method makes the other's calls.
C11_WalkOrder ==
    /\ op = "install" =>
          /\ \A k \in 1..Len(CallOrder("try_execute")) :
                CallOrder("try_execute")[k] = k
          /\ CallOrder("try_revert") = <<>>
    /\ op = "uninstall" =>
          /\ \A k \in 1..Len(CallOrder("try_revert")) :
                CallOrder("try_revert")[k] = Len(actions) - k + 1
          /\ CallOrder("try_execute") = <<>>

C11_Witness ==
    /\ UninstallReturned
    /\ Len(actions) = 2
    /\ CallOrder("try_revert") = <<2, 1>>
    /\ Invoked("revert_err", 2)
    /\ Invoked("revert_ok", 1)

\* Every action of the plan is in state s.
AllInState(s) == \A i \in 1..Len(actions) : actions[i].state = s

\* C12: after install returns Ok, every action of the plan is Completed.
C12_InstallOkAllCompleted ==
    (InstallReturned /\ result = Ok) => AllInState(Completed)

C12_Witness ==
    /\ InstallReturned
    /\ result = Ok
    /\ Len(actions) = 2
    /\ before[1].state = Uncompleted
    /\ before[2].state = Uncompleted
    /\ actions[2].kind = "composite"
    /\ AllInState(Completed)

\* C13: after uninstall returns Ok, on a plan that was installed before or
\* on any other, every action of the plan is Uncompleted.
C13_UninstallOkAllUncompleted ==
    (UninstallReturned /\ result = Ok) => AllInState(Uncompleted)

C13_Witness ==
    /\ UninstallReturned
    /\ result = Ok
    /\ Len(actions) = 2
    /\ before[1].state = Completed
    /\ before[2].state = Completed
    /\ AllInState(Uncompleted)

\* ---------------------------------------------------- errors and re-entry
\* C14, as claimed: when try_execute fails with E and the receipt write
\* that follows fails too, install returns Action(E).
C14_ActionErrorKeptAsClaimed ==
    (InstallFailed /\ written # "Ok")
        => result = ActionErr(ActionError(idx))

\* C14, amended: when try_execute fails with E and the receipt write that
\* follows fails too, install never returns the receipt error: it returns
\* Action(E), or the send's error when the Failure diagnostic cannot be
\* sent.
C14_ActionErrorKept ==
    (InstallFailed /\ written # "Ok")
        => /\ result.tag \notin {WriteError(o) : o \in WriteOutcomes}
           /\ result = IF sent = "failed" THEN DiagnosticErr
                       ELSE ActionErr(ActionError(idx))

C14_Witness ==
    /\ InstallFailed
    /\ written = "RecordingReceipt"
    /\ receipt = TornReceipt
    /\ idx = 2
    /\ result = ActionErr(ActionError(2))

\* C15, as claimed: install on a plan whose actions are all Completed
\* invokes no execute, changes no state and returns Ok.
C15_ReinstallIsNoOp ==
    (InstallReturned /\ \A i \in 1..Len(before) : before[i].state = Completed)
        => /\ Calls("execute") = {}
           /\ actions = before
           /\ result = Ok

\* The plan the method was called on is what an install that failed at
\* action k leaves of a freshly planned one: the actions before k
\* Completed, action k not, those after k as planned.
AfterFailedInstall(k) ==
    /\ k \in 1..Len(before)
    /\ \A i \in 1..(k - 1) : before[i].state = Completed
    /\ before[k].state # Completed
    /\ \A i \in (k + 1)..Len(before) : before[i] \in {Leaf, Composite}

\* C16, as claimed: an uninstall that follows an install which failed at
\* action k, and is not cancelled, invokes the revert of the actions that
\* were Completed and of no other, and returns ActionRevert with exactly the
\* errors of the reverts that failed, or Ok when none failed.
C16_UninstallAfterFailure ==
    (UninstallReturned /\ path # "cancel"
       /\ \E k \in 1..Len(before) : AfterFailedInstall(k))
        => /\ \A i \in 1..Len(before) :
                Invoked("revert", i) <=> before[i].state = Completed
           /\ result = IF RevertFailures = <<>> THEN Ok
                       ELSE ActionRevert(RevertFailures)

\* C17, as claimed: install of a plan with no action returns Ok, invokes
\* no action and leaves the plan's receipt on disk.
C17_EmptyPlanInstall ==
    (InstallReturned /\ actions = <<>>)
        => /\ result = Ok
           /\ Calls("try_execute") = {}
           /\ receipt = EncodePlan(version, <<>>)

\* C19, as claimed: when every action is Completed and the final receipt
\* write has succeeded, install returns Ok whether or not the Success
\* diagnostic could be sent.
C19_SuccessSendNonFatal ==
    (InstallReturned /\ path = "success" /\ written = "Ok")
        => result = Ok

\* ------------------------------------------------- runs without a receiver
\* The walk is over and has made its call on every action of the plan.
VisitedAll ==
    IF op = "install"
    THEN Len(CallOrder("try_execute")) = Len(actions)
    ELSE Len(CallOrder("try_revert")) = Len(actions)

\* C18: a run of install or uninstall that was given no receiver polls
\* nothing, and a run that has polled nothing never takes the cancel exit,
\* never returns Cancelled, and leaves its loop only after its call on the
\* last action or, for install, at an action that failed.
C18_NoReceiverNoCancel ==
    /\ (Walking /\ ~cancel_channel.rx) => ~Invoked("try_recv", 0)
    /\ (op \in {"install", "uninstall"} /\ ~Invoked("try_recv", 0)) =>
          /\ path # "cancel"
          /\ result # Cancelled
          /\ (pc \in {"receipt", "diag", "done"}
                /\ ~(op = "install" /\ path = "fail")) => VisitedAll

C18_Witness ==
    /\ pc = "loop"
    /\ ~cancel_channel.rx
    /\ op = "uninstall"
    /\ Len(actions) = 2
    /\ idx = 0
    /\ CallOrder("try_revert") = <<2, 1>>
    /\ Invoked("revert_err", 2)

\* uninstall has returned through its cancel exit: the probe before action
\* idx found a signal.
UninstallCancelled == UninstallReturned /\ path = "cancel"

\* try_revert has been called on no action up to k and exactly once on each
\* action after k.
RevertedDownTo(k) ==
    /\ \A i \in 1..k : ~Invoked("try_revert", i)
    /\ \A i \in (k + 1)..Len(actions) :
          Cardinality({j \in Calls("try_revert") : log[j].i = i}) = 1

\* C20, as claimed: when uninstall observes a cancellation at the probe
\* before action k, the receipt on disk holds the current states, uninstall
\* returns Cancelled, no action up to k has been handed to try_revert and
\* each action after k exactly once.
C20_UninstallCancelAsClaimed ==
    UninstallCancelled =>
        /\ RecordsStates(receipt, actions)
        /\ result = Cancelled
        /\ RevertedDownTo(idx)

\* C20, amended: when uninstall observes a cancellation at the probe before
\* action k, it calls write_receipt once, and the receipt on disk holds the
\* current states when that write succeeds (a failure is only logged); it
\* returns Cancelled, or the send's error when the Cancelled diagnostic
\* cannot be sent; no action up to k has been handed to try_revert and each
\* action after k exactly once.
C20_UninstallCancel ==
    UninstallCancelled =>
        /\ Cardinality(Calls("write_receipt")) = 1
        /\ written = "Ok" => RecordsStates(receipt, actions)
        /\ result = IF sent = "failed" THEN DiagnosticErr ELSE Cancelled
        /\ RevertedDownTo(idx)

C20_Witness ==
    /\ UninstallCancelled
    /\ Len(actions) = 2
    /\ idx = 1
    /\ result = Cancelled
    /\ written = "Ok"
    /\ before[2].state = Completed
    /\ actions[2].state = Uncompleted
    /\ actions[1].state = Completed
    /\ RecordsStates(receipt, actions)

\* ------------------------------------------------------------ concurrency
\* The log positions where an execute or a revert starts.
Starts == Calls("execute") \cup Calls("revert")

\* The start at position k of the log has finished: the next entry is the
\* end of that same execute or revert.
Finished(k) ==
    /\ k < Len(log)
    /\ log[k + 1].i = log[k].i
    /\ log[k + 1].ev \in
          (IF log[k].ev = "execute" THEN {"execute_ok", "execute_err"}
           ELSE {"revert_ok", "revert_err"})

\* The actions whose execute or revert has started and not finished.
InFlight == {log[k].i : k \in {j \in Starts : ~Finished(j)}}

\* C21: at most one action is in flight; an execute or revert that has
\* started is the last entry of the log or is followed at once by its own
\* end, so that no poll of the cancel channel and no other action's call
\* falls between the two; the method is awaiting an action exactly when
\* one is in flight.
C21_OneActionInFlight ==
    /\ Cardinality(InFlight) <= 1
    /\ \A k \in Starts : k = Len(log) \/ Finished(k)
    /\ pc = "inflight" <=> InFlight = {idx}
    /\ pc # "inflight" <=> InFlight = {}

C21_Witness ==
    /\ pc = "inflight"
    /\ op = "install"
    /\ idx = 2
    /\ InFlight = {2}
    /\ Invoked("execute_ok", 1)
    /\ cancel_channel.pending > 0
    /\ Cardinality(Calls("try_recv")) = 2

\* ------------------------------------------------------- lifecycle states
\* install is on its failure exit: the try_execute of action idx has failed.
ExecuteFailed == op = "install" /\ path = "fail"

\* Some sub-action of `a` is Completed.
SomeSubCompleted(a) == \E k \in 1..Len(a.subs) : a.subs[k] = Completed

\* C22, as claimed: a failed execute leaves the action's state exactly as
\* it was on entry to try_execute, for leaves and composites alike.
C22_FailureKeepsStateAsClaimed ==
    ExecuteFailed => actions[idx].state = before[idx].state

\* C22, amended: a failed execute leaves a leaf exactly as it was on entry
\* to try_execute, and leaves a composite in the state it was entered with
\* when none of its sub-actions is Completed; a composite that fails with
\* some sub-action Completed is in Progress, whatever its state on entry.
\* The failure never marks the action Completed.
C22_FailureKeepsState ==
    ExecuteFailed =>
        /\ actions[idx].state # Completed
        /\ IF actions[idx].kind = "leaf" \/ ~SomeSubCompleted(actions[idx])
           THEN actions[idx].state = before[idx].state
           ELSE actions[idx].state = Progress

C22_Witness ==
    /\ ExecuteFailed
    /\ actions[idx].kind = "composite"
    /\ before[idx].state = Progress
    /\ actions[idx].state = Progress
    /\ Invoked("execute_err", idx)

\* This execute of the composite at idx has completed a sub-action that was
\* not Completed on entry.
CompletedSubNow ==
    \E k \in 1..Len(actions[idx].subs) :
        /\ before[idx].subs[k] # Completed
        /\ actions[idx].subs[k] = Completed

\* C23: a composite whose execute completes at least one sub-action and
\* then fails on a later one is in Progress and its error is the one the
\* failure exit carries; a leaf is never in Progress.
C23_CompositeProgress ==
    /\ \A i \in 1..Len(actions) :
          actions[i].kind = "leaf" => actions[i].state # Progress
    /\ (ExecuteFailed /\ actions[idx].kind = "composite" /\ CompletedSubNow)
          => /\ actions[idx].state = Progress
             /\ err = ActionError(idx)
             /\ Invoked("execute_err", idx)

C23_Witness ==
    /\ ExecuteFailed
    /\ pc = "done"
    /\ idx = 2
    /\ actions[2].kind = "composite"
    /\ before[2].state = Uncompleted
    /\ actions[2].state = Progress
    /\ CompletedSubNow
    /\ actions[1].kind = "leaf"
    /\ result = ActionErr(ActionError(2))

\* ------------------------------------------------- what the exits return
\* C24, as claimed: when try_execute fails with E, install returns
\* Action(E) whatever the Failure diagnostic send does.
C24_ActionErrorSurvivesSendAsClaimed ==
    InstallFailed => result = ActionErr(err)

\* C24, amended: when try_execute fails with E, install returns Action(E)
\* exactly when the Failure diagnostic is sent or the plan carries no
\* diagnostic data; when the send fails, its error is what install returns
\* and the action error is lost.
C24_ActionErrorSurvivesSend ==
    InstallFailed =>
        /\ err = ActionError(idx)
        /\ sent = "none" <=> ~diagnostic_data
        /\ result = ActionErr(err) <=> sent # "failed"
        /\ result = DiagnosticErr <=> sent = "failed"

C24_Witness ==
    /\ InstallFailed
    /\ idx = 2
    /\ diagnostic_data
    /\ sent = "failed"
    /\ written = "Ok"
    /\ result = DiagnosticErr

\* install has returned after its loop visited every action.
InstallWalked == InstallReturned /\ path = "success"

\* ------------------------------------------------ what the probe reacts to
\* The method is at the probe before the action at idx.
AtProbe ==
    /\ pc = "loop"
    /\ \/ op = "install" /\ idx <= Len(actions)
       \/ op = "uninstall" /\ idx >= 1

\* A poll of the receiver would return a value, Closed or Lagged.
PollNotEmpty ==
    /\ cancel_channel.rx
    /\ TryRecv(cancel_channel) \in {"Ok", "Closed", "Lagged"}

\* From a probe whose poll is not Empty the method takes one step only: it
\* polls and leaves for its cancel exit with the action at idx untouched.
\* (Until it does, the senders can only add to what the poll will find.)
ProbeStep ==
    (AtProbe /\ PollNotEmpty) =>
        \/ /\ pc' = "receipt"
           /\ path' = "cancel"
           /\ idx' = idx
           /\ actions' = actions
           /\ log' = Append(log, Event("try_recv", 0))
        \/ /\ AtProbe'
           /\ PollNotEmpty'
           /\ UNCHANGED <<actions, idx, log, op>>

\* The method has returned through its cancel exit.
CancelReturned == pc = "done" /\ path = "cancel"

\* The cancel exit was taken at the probe before the action at idx: the
\* poll is the last thing before the receipt write and the action at idx was
\* not handed to try_execute or try_revert.
CancelledAtProbe ==
    /\ Cardinality(Calls("write_receipt")) = 1
    /\ \A w \in Calls("write_receipt") :
         w > 1 /\ log[w - 1] = Event("try_recv", 0)
    /\ op = "install" => ~Invoked("try_execute", idx)
    /\ op = "uninstall" => ~Invoked("try_revert", idx)

\* C25, as claimed: a poll that returns a value, Closed or Lagged makes
\* install and uninstall write a receipt and return Cancelled before the next
\* action.
C25_AnySignalCancelsAsClaimed ==
    /\ [][ProbeStep]_vars
    /\ [](CancelReturned => (CancelledAtProbe /\ result = Cancelled))

\* C25, amended: a poll that returns a value, Closed or Lagged makes install
\* and uninstall leave for the cancel exit before the next action; the exit
\* calls write_receipt once and returns Cancelled, or the send's error when
\* the Cancelled diagnostic cannot be sent.  A run is cancelled by a closed
\* channel with no value sent.
C25_AnySignalCancels ==
    /\ [][ProbeStep]_vars
    /\ [](CancelReturned =>
            /\ CancelledAtProbe
            /\ result = IF sent = "failed" THEN DiagnosticErr ELSE Cancelled)

C25_Witness ==
    /\ CancelReturned
    /\ op = "uninstall"
    /\ ~delivery.some
    /\ Len(actions) = 2
    /\ idx = 1
    /\ Invoked("revert_ok", 2)
    /\ CancelledAtProbe
    /\ result = Cancelled

\* C26: install returns Ok only after a final receipt write that succeeded;
\* when every action is Completed and that write fails, install returns the
\* write's error (RecordingReceipt or SerializingReceipt), every action is
\* still Completed, and no Success diagnostic is sent.
C26_FinalWriteGuardsOk ==
    /\ (InstallReturned /\ result = Ok)
          => (written = "Ok" /\ Calls("write_receipt") # {})
    /\ (InstallWalked /\ written # "Ok")
          => /\ written \in {"RecordingReceipt", "SerializingReceipt"}
             /\ result = ReceiptErr(written)
             /\ AllInState(Completed)
             /\ Calls("Success") = {}
             /\ sent = "none"

C26_Witness ==
    /\ InstallWalked
    /\ written = "RecordingReceipt"
    /\ diagnostic_data
    /\ Len(actions) = 2
    /\ before[1].state = Uncompleted
    /\ AllInState(Completed)
    /\ result = ReceiptErr("RecordingReceipt")

====
